---------------------------- MODULE Spec2Model ----------------------------
(***************************************************************************)
(* The Exchange ADMM coordinator of pycity_scheduling                       *)
(* (algorithms/exchange_admm_algorithm.py) as a state machine.              *)
(*                                                                          *)
(* Numbers.  Schedules returned by the solver are integers of a small grid. *)
(* Everything derived from them by a division (the consensus signal x_, the *)
(* dual accumulator u, the objective coefficients, the residuals) is held   *)
(* as an exact fraction [n |-> numerator, d |-> denominator > 0] in lowest  *)
(* terms, so that a division is a division and not the identity.  A norm is *)
(* held as its square (the square root of a fraction is not a fraction);    *)
(* norms are only ever compared with a threshold, and for a norm r >= 0 and *)
(* a threshold e, r <= e is decided on the squares (see LeqEps).            *)
(***************************************************************************)
EXTENDS Integers, Sequences, FiniteSets, TLC

\* ------------------------------------------------------------------ bounds
\* largest iteration cap a run is configured with
MaxIterations == 3
\* the solver's grid: a power value is one of PLow..PHigh
PHigh == 2
\* largest number of processes the parallel backend is started with
MaxWorkers == 2
\* largest max_low a curtailable load is constructed with
MaxLow == 3
\* largest min_full a curtailable load is constructed with
MinFull == 3
\* largest op_horizon of the timer of a curtailable load
MaxHorizon == 3
\* number of steps the timer can advance in all: the simulation covers
\* op_horizon + MaxAdvance steps
MaxAdvance == 4
\* populate_model calls on one load
MaxPopulate == 2

\* ------------------------------------------------------- program constants
\* rho=2.0, the default step size
rho == 2
\* node.model.beta = pyomo.Param(mutable=True, initialize=1)
beta == 1

\* --------------------------------------------------------------- fractions
Abs(a) == IF a < 0 THEN -a ELSE a

RECURSIVE GCD(_, _)
GCD(a, b) == IF b = 0 THEN a ELSE GCD(b, a % b)

\* the fraction a/b in lowest terms (b # 0)
Frac(a, b) ==
    LET s == IF b < 0 THEN -1 ELSE 1
        g == GCD(Abs(a), Abs(b))
    IN  [n |-> (s * a) \div g, d |-> (s * b) \div g]

Int2R(a) == [n |-> a, d |-> 1]
RZero == Int2R(0)
RAdd(a, b) == Frac(a.n * b.d + b.n * a.d, a.d * b.d)
RNeg(a) == [n |-> -a.n, d |-> a.d]
RSub(a, b) == RAdd(a, RNeg(b))
RMul(a, b) == Frac(a.n * b.n, a.d * b.d)
RDivInt(a, k) == Frac(a.n, a.d * k)
RLeq(a, b) == a.n * b.d <= b.n * a.d

RECURSIVE RSum(_, _)
\* sum of f[k] over k in S, f a function to fractions
RSum(f, S) ==
    IF S = {} THEN RZero
    ELSE LET k == CHOOSE k \in S : TRUE IN RAdd(f[k], RSum(f, S \ {k}))


\* ------------------------------------------------------------ the scenario
\* self._entities: entity 0 is the city district, the others its buildings
\* (the district and the two buildings of example_05)
Entities == {0, 1, 2}
NumEntities == Cardinality(Entities)
\* self.op_horizon = self.city_district.op_horizon; Timer(op_horizon=2, step_size=3600) in example_05
op_horizon == 2
Steps == 0 .. (op_horizon - 1)

\* what a solver can return for one entity: a trajectory on the grid
Trajectories == [Steps -> 0 .. PHigh]
ZeroVector == [t \in Steps |-> RZero]
ZeroSchedules == [i \in Entities |-> [t \in Steps |-> 0]]

\* a threshold eps_primal / eps_dual: a float, +infinity included
EpsValues ==
    { [inf |-> FALSE, val |-> -1], [inf |-> FALSE, val |-> 1],
      [inf |-> TRUE,  val |-> 0] }
\* prices a building pays per unit of power (a negative price rewards consumption)
CostValues == {-4, 0}
Buildings == Entities \ {0}

VARIABLES
    max_iterations,  \* self.max_iterations
    eps_primal,      \* self.eps_primal
    eps_dual,        \* self.eps_dual
    cost,            \* the buildings' prices: cost[i][t] per unit of p_el_vars[t]
    pc,              \* where the caller is: "idle", "iterate", "solve", "check", "done"
    results,         \* the results dict of the current run
    params,          \* the params dict of the current run (keys "p_el", "x_", "u")
    last_p_el,       \* local last_p_el of _iteration
    last_x_,         \* local last_x_ of _iteration
    s,               \* local s of _iteration
    node,            \* node.model.last_p_el_schedules / xs_ / us of every node
    p_el_vars,       \* entity.model.p_el_vars: the values the last solve left
    solved,          \* nodes solved so far by the running _solve_nodes call
    solves,          \* number of solves of each node in the current run
    x_log,           \* the consensus signals x_ computed in the current run, in order
    error,           \* the exception that ended the run, NoError while there is none
    \* the parallel backend (MPIInterface and the MPI variant of the algorithm)
    mpi4py,          \* whether "from mpi4py import MPI" succeeds
    comm_size,       \* MPI.COMM_WORLD.Get_size(): the number of processes started
    backend,         \* the algorithm class that runs: "sequential" or "mpi"
    wparams,         \* the params dict of every worker of rank >= 1
    recv_buf,        \* rank 0: the schedules received from the other workers
    sent,            \* the workers of rank >= 1 that have sent their schedules
    received,        \* the workers of rank >= 1 that hold the current signal
    \* a CurtailableLoad and the model it is populated into
    cl_pc,           \* where the caller of the load is
    args,            \* the arguments max_low, min_full of the constructor call
    max_low,         \* self.max_low
    min_full,        \* self.min_full
    horizon,         \* self.op_horizon of the load
    mode,            \* the mode of the last populate_model
    timestep,        \* self.timer.currentTimestep
    P_El_Schedule,   \* self.P_El_Schedule, one entry per step of the simulation
    P_State_Schedule,        \* self.P_State_Schedule
    P_El_vars,               \* the values P_El_vars[t].x of the last solve
    constr_previous_state,   \* the right-hand sides of self.constr_previous_state
    constr_previous_start,   \* the right-hand side of self.constr_previous_start, or None
    constr_previous,         \* the right-hand sides of self.constr_previous
    populated,               \* the number of populate_model calls on the load
    \* a ThermalEntity
    th_pc,              \* where the caller of the thermal entity is
    P_Th_vars,          \* the values P_Th_vars[t].x of the last solve
    P_Th_Schedule,      \* self.P_Th_Schedule
    P_Th_Ref_Schedule   \* self.P_Th_Ref_Schedule

admm_vars == << max_iterations, eps_primal, eps_dual, cost, pc, results, params,
                last_p_el, last_x_, s, node, p_el_vars, solved, solves, x_log,
                error >>

mpi_vars == << mpi4py, comm_size, backend, wparams, recv_buf, sent, received >>

cl_vars == << cl_pc, args, max_low, min_full, horizon, mode, timestep,
              P_El_Schedule, P_State_Schedule, P_El_vars,
              constr_previous_state, constr_previous_start, constr_previous,
              populated >>

th_vars == << th_pc, P_Th_vars, P_Th_Schedule, P_Th_Ref_Schedule >>

vars == << admm_vars, mpi_vars, cl_vars, th_vars >>

config == << max_iterations, eps_primal, eps_dual, cost >>

\* --------------------------------------------------------- the objective
\* entity.get_objective(): 'peak-shaving' for the district (the sum of the
\* squares of its schedule), 'price' for a building (price times power)
get_objective(i, p) ==
    LET RECURSIVE acc(_)
        acc(S) == IF S = {} THEN 0
                  ELSE LET t == CHOOSE t \in S : TRUE
                       IN  (IF i = 0 THEN p[t] * p[t] ELSE cost[i][t] * p[t])
                           + acc(S \ {t})
    IN  Int2R(acc(Steps))

\* a changed penalty: the district's branch keeps the buildings' signs
penalty_SameSign(i, t) ==
    RAdd(RAdd(RNeg(Int2R(node[i].last_p_el_schedules[t])), node[i].xs_[t]),
         node[i].us[t])

\* the list penalty of _add_objective, entry t, over the node's parameters
penalty(i, t) ==
    IF i = 0
    THEN RSub(RSub(RNeg(Int2R(node[i].last_p_el_schedules[t])), node[i].xs_[t]),
              node[i].us[t])
    ELSE RAdd(RAdd(RNeg(Int2R(node[i].last_p_el_schedules[t])), node[i].xs_[t]),
              node[i].us[t])

\* node.model.o of node i at the trajectory p
Objective(i, p) ==
    LET quad == [t \in Steps |-> RMul(Frac(rho, 2), Int2R(p[t] * p[t]))]
        lin  == [t \in Steps |-> RMul(RMul(Int2R(rho), penalty(i, t)), Int2R(p[t]))]
    IN  RAdd(RMul(Int2R(beta), get_objective(i, p)),
             RAdd(RSum(quad, Steps), RSum(lin, Steps)))

\* the least of a finite non-empty set of objective values
Least(values) == CHOOSE v \in values : \A w \in values : RLeq(v, w)

\* what the solver may return for node i: any minimiser of its objective
Minimisers(i) ==
    LET valued == { << p, Objective(i, p) >> : p \in Trajectories }
        least == Least({ v[2] : v \in valued })
    IN  { v[1] : v \in { w \in valued : w[2] = least } }

\* ------------------------------------------- the computations of _iteration
\* a changed ConsensusSignal: the sum is divided by the number of buildings
ConsensusSignal_BuildingsOnly(p) ==
    LET RECURSIVE total(_, _)
        total(S, t) == IF S = {} THEN 0
                       ELSE LET i == CHOOSE i \in S : TRUE
                            IN  p[i][t] + total(S \ {i}, t)
    IN  [t \in Steps |->
            RDivInt(Int2R(-p[0][t] + total(Entities \ {0}, t)), NumEntities - 1)]

\* x_ = (-p_el_schedules[0] + sum(p_el_schedules[1:])) / len(self._entities)
ConsensusSignal(p) ==
    LET RECURSIVE total(_, _)
        total(S, t) == IF S = {} THEN 0
                       ELSE LET i == CHOOSE i \in S : TRUE
                            IN  p[i][t] + total(S \ {i}, t)
    IN  [t \in Steps |->
            RDivInt(Int2R(-p[0][t] + total(Entities \ {0}, t)), NumEntities)]

\* a changed DualResidual: the district is treated like a building
DualResidual_SameSign(i, t, p, lastp, lastx, x) ==
    RMul(Int2R(-rho),
         RSub(RAdd(Int2R(p[i][t] - lastp[i][t]), lastx[t]), x[t]))

\* s[0] and s[i], i >= 1, entry t
DualResidual(i, t, p, lastp, lastx, x) ==
    IF i = 0
    THEN RMul(Int2R(-rho),
              RSub(RAdd(Int2R(-p[0][t] + lastp[0][t]), lastx[t]), x[t]))
    ELSE RMul(Int2R(-rho),
              RSub(RAdd(Int2R(p[i][t] - lastp[i][t]), lastx[t]), x[t]))

\* the square of np.math.sqrt(len(self._entities)) * np.linalg.norm(x_)
r_norm_sq(x) ==
    RMul(Int2R(NumEntities), RSum([t \in Steps |-> RMul(x[t], x[t])], Steps))

\* the square of np.linalg.norm(s.flatten())
s_norm_sq(sv) ==
    RSum([i \in Entities |-> RSum([t \in Steps |-> RMul(sv[i][t], sv[i][t])], Steps)],
         Entities)

\* norm <= eps, for a norm given by its square and a threshold eps
LeqEps(sq, eps) ==
    eps.inf \/ (eps.val >= 0 /\ RLeq(sq, Int2R(eps.val * eps.val)))

Last(q) == q[Len(q)]

\* IterationAlgorithm._is_last_iteration: the iteration cap
BaseIsLastIteration == Last(results.iterations) >= max_iterations

\* the residual test of ExchangeADMM._is_last_iteration
Converged ==
    /\ LeqEps(Last(results.r_norms), eps_primal)
    /\ LeqEps(Last(results.s_norms), eps_dual)

\* a changed _is_last_iteration: the cap is not consulted
IsLastIteration_ResidualOnly == Converged

\* a changed _is_last_iteration: the residual test is skipped after the first iteration
IsLastIteration_FromSecond ==
    IF BaseIsLastIteration THEN TRUE
    ELSE Len(results.iterations) >= 2 /\ Converged

\* a changed _is_last_iteration: the residual test is left out
IsLastIteration_CapOnly == BaseIsLastIteration

\* ExchangeADMM._is_last_iteration
IsLastIteration ==
    IF BaseIsLastIteration THEN TRUE ELSE Converged

\* params after the three "if ... not in params" of _iteration
FillParams(ps) ==
    [k \in {"p_el", "x_", "u"} |->
        IF k \in DOMAIN ps THEN ps[k]
        ELSE IF k = "p_el" THEN ZeroSchedules ELSE ZeroVector]

\* the two appends of step 3) of _iteration
AppendNorms_BothToR(res, r, sn) ==
    [res EXCEPT !.r_norms = Append(Append(@, r), sn)]

AppendNorms(res, r, sn) ==
    [res EXCEPT !.r_norms = Append(@, r), !.s_norms = Append(@, sn)]

\* a changed SaveParams: u is overwritten by x_ instead of accumulating it
SaveParams_Overwrite(ps, p_el_schedules, x_) ==
    [ps EXCEPT !["p_el"] = p_el_schedules, !["x_"] = x_, !["u"] = x_]

\* 4) Save required parameters for another iteration
SaveParams(ps, p_el_schedules, x_) ==
    [ps EXCEPT !["p_el"] = p_el_schedules,
               !["x_"] = x_,
               !["u"] = [t \in Steps |-> RAdd(@[t], x_[t])]]

\* a changed barrier: the signal is recomputed as soon as one node is solved
AllNodesSolved_Any == solved # {}

\* _solve_nodes has returned: every node of to_solve_nodes is solved
AllNodesSolved == solved = Entities

\* a changed PushedParams: us receives last_x_ instead of last_u
PushedParams_XForU(i, lastp, lastx, lastu) ==
    [last_p_el_schedules |-> lastp[i], xs_ |-> lastx, us |-> lastx]

\* the three parameters the loop of _iteration writes into node i
PushedParams(i, lastp, lastx, lastu) ==
    [last_p_el_schedules |-> lastp[i], xs_ |-> lastx, us |-> lastu]

\* ------------------------------------------------------ the parallel backend
\* a changed get_size: the fallback of the constructor is lost
get_size_NoFallback == comm_size

\* MPIInterface.get_size(): mpi_size is 1 unless mpi4py could be imported
get_size == IF mpi4py THEN comm_size ELSE 1

\* the ranks of the workers; rank 0 is the coordinator
Workers == 0 .. (get_size - 1)

\* the worker a node is assigned to: round-robin over the node list
Owner(i) == i % get_size

\* the nodes of worker r
Chunk(r) == { i \in Entities : Owner(i) = r }

\* main() of the case study: the sequential class with one process, the MPI
\* class otherwise
Dispatch == IF get_size = 1 THEN "sequential" ELSE "mpi"

\* no exception has been raised
NoError == [type |-> "none", node |-> -1]

\* a changed Raise: the error does not carry the node
Raise_Anonymous(i) == [type |-> "SubproblemInfeasible", node |-> -1]

\* the error a failed solve of node i surfaces
Raise(i) == [type |-> "SubproblemInfeasible", node |-> i]

\* ------------------------------------------------------------------ actions
\* the coordinator after construction, before solve() is called
InitCoordinator ==
    /\ max_iterations \in 1 .. MaxIterations
    /\ eps_primal \in EpsValues
    /\ eps_dual \in EpsValues
    /\ cost \in [Buildings -> [Steps -> CostValues]]
    /\ pc = "idle"
    /\ results = << >>
    /\ params = << >>
    /\ last_p_el = ZeroSchedules
    /\ last_x_ = ZeroVector
    /\ s = [i \in Entities |-> ZeroVector]
    \* pyomo.Param(entity.model.t, mutable=True, initialize=0)
    /\ node = [i \in Entities |-> PushedParams(i, ZeroSchedules, ZeroVector, ZeroVector)]
    /\ p_el_vars = ZeroSchedules
    /\ solved = {}
    /\ solves = [i \in Entities |-> 0]
    /\ x_log = << >>
    /\ error = NoError

\* no parallel backend: one process, mpi4py not needed
InitSequentialBackend ==
    /\ mpi4py = FALSE
    /\ comm_size = 1
    /\ backend = "sequential"
    /\ wparams = << >>
    /\ recv_buf = ZeroSchedules
    /\ sent = {}
    /\ received = {}

\* an optional value is a sequence of at most one element: None is Python's
\* None, Some(k) the value k
None == << >>
Some(k) == << k >>

\* no curtailable load takes part
InitNoLoad ==
    /\ cl_pc = "off"
    /\ args = [max_low |-> None, min_full |-> None]
    /\ max_low = None
    /\ min_full = None
    /\ horizon = 0
    /\ mode = "none"
    /\ timestep = 0
    /\ P_El_Schedule = << >>
    /\ P_State_Schedule = << >>
    /\ P_El_vars = << >>
    /\ constr_previous_state = << >>
    /\ constr_previous_start = None
    /\ constr_previous = << >>
    /\ populated = 0

\* no thermal entity exists
InitNoThermal ==
    /\ th_pc = "off"
    /\ P_Th_vars = << >>
    /\ P_Th_Schedule = << >>
    /\ P_Th_Ref_Schedule = << >>

Init ==
    /\ InitCoordinator
    /\ InitSequentialBackend
    /\ InitNoLoad
    /\ InitNoThermal

\* solve() up to the loop: _presolve
Presolve ==
    /\ pc \in {"idle", "done"}
    /\ results' = [iterations |-> << >>, r_norms |-> << >>, s_norms |-> << >>]
    /\ params' = << >>
    /\ solves' = [i \in Entities |-> 0]
    /\ x_log' = << >>
    /\ pc' = "iterate"
    /\ UNCHANGED << config, last_p_el, last_x_, s, node, p_el_vars, solved >>
    /\ UNCHANGED << error, mpi_vars, cl_vars, th_vars >>

\* _iteration up to the call of _solve_nodes
BeginIteration ==
    /\ pc = "iterate"
    /\ LET filled == FillParams(params) IN
        /\ results' = [results EXCEPT
                          !.iterations = Append(@, Len(@) + 1)]
        /\ params' = filled
        /\ last_p_el' = filled.p_el
        /\ last_x_' = filled.x_
        /\ node' = [i \in Entities |-> PushedParams(i, filled.p_el, filled.x_, filled.u)]
    /\ solved' = {}
    /\ pc' = "solve"
    /\ UNCHANGED << config, s, p_el_vars, solves, x_log >>
    /\ UNCHANGED << error, mpi_vars, cl_vars, th_vars >>

\* _solve_nodes: the solve of one node
SolveNode(i) ==
    /\ pc = "solve"
    /\ i \notin solved
    /\ solved' = solved \cup {i}
    /\ solves' = [solves EXCEPT ![i] = @ + 1]
    /\ \E p \in Minimisers(i) : p_el_vars' = [p_el_vars EXCEPT ![i] = p]
    /\ UNCHANGED << config, pc, results, params, last_p_el, last_x_, s, node, x_log >>
    /\ UNCHANGED << error, mpi_vars, cl_vars, th_vars >>

\* _solve_nodes: the solver reports the problem of node i infeasible or
\* unbounded; the exception leaves _iteration and solve()
SolveNodeFails(i) ==
    /\ pc = "solve"
    /\ i \notin solved
    /\ error' = Raise(i)
    /\ pc' = "failed"
    /\ UNCHANGED << config, results, params, last_p_el, last_x_, s, node,
                    p_el_vars, solved, solves, x_log >>
    /\ UNCHANGED << mpi_vars, cl_vars, th_vars >>

\* _iteration after _solve_nodes has returned: steps 2) to 4)
UpdateSignal ==
    /\ pc = "solve"
    /\ AllNodesSolved
    /\ LET p_el_schedules == p_el_vars
           x_ == ConsensusSignal(p_el_schedules)
           sv == [i \in Entities |-> [t \in Steps |->
                     DualResidual(i, t, p_el_schedules, last_p_el, last_x_, x_)]]
       IN
        /\ s' = sv
        /\ results' = AppendNorms(results, r_norm_sq(x_), s_norm_sq(sv))
        /\ params' = SaveParams(params, p_el_schedules, x_)
        /\ x_log' = Append(x_log, x_)
    /\ pc' = "check"
    /\ UNCHANGED << config, last_p_el, last_x_, node, p_el_vars, solved, solves >>
    /\ UNCHANGED << error, mpi_vars, cl_vars, th_vars >>

\* the loop test of _solve: _is_last_iteration
CheckLastIteration ==
    /\ pc = "check"
    /\ pc' = IF IsLastIteration THEN "done" ELSE "iterate"
    /\ UNCHANGED << config, results, params, last_p_el, last_x_, s, node,
                    p_el_vars, solved, solves, x_log >>
    /\ UNCHANGED << error, mpi_vars, cl_vars, th_vars >>

Next ==
    \/ Presolve
    \/ BeginIteration
    \/ \E i \in Entities : SolveNode(i)
    \/ \E i \in Entities : SolveNodeFails(i)
    \/ UpdateSignal
    \/ CheckLastIteration

Spec == Init /\ [][Next]_vars

\* ------------------------------------------- the run of the parallel backend
\* the MPI class is instantiated, in each of the processes started
InitParallelBackend ==
    /\ mpi4py \in BOOLEAN
    \* without mpi4py the processes cannot be counted: the most are started
    /\ comm_size \in IF mpi4py THEN 1 .. MaxWorkers ELSE {MaxWorkers}
    /\ backend = "mpi"
    /\ wparams = [r \in Workers \ {0} |-> << >>]
    /\ recv_buf = ZeroSchedules
    /\ sent = {}
    /\ received = Workers \ {0}

MPIInit ==
    /\ InitCoordinator
    /\ InitParallelBackend
    /\ InitNoLoad
    /\ InitNoThermal

\* _presolve, in every process
MPIPresolve ==
    /\ backend = "mpi"
    /\ pc \in {"idle", "done"}
    /\ results' = [iterations |-> << >>, r_norms |-> << >>, s_norms |-> << >>]
    /\ params' = << >>
    /\ wparams' = [r \in Workers \ {0} |-> << >>]
    /\ received' = Workers \ {0}
    /\ solves' = [i \in Entities |-> 0]
    /\ x_log' = << >>
    /\ pc' = "iterate"
    /\ UNCHANGED << config, last_p_el, last_x_, s, node, p_el_vars, solved, error >>
    /\ UNCHANGED << mpi4py, comm_size, backend, recv_buf, sent, cl_vars, th_vars >>

\* _iteration up to the solves: every worker pushes the signal it holds into
\* the nodes of its chunk
MPIBeginIteration ==
    /\ backend = "mpi"
    /\ pc = "iterate"
    /\ received = Workers \ {0}
    /\ LET filled == FillParams(params)
           wfilled == [r \in Workers \ {0} |-> FillParams(wparams[r])]
           held == [r \in Workers |-> IF r = 0 THEN filled ELSE wfilled[r]]
       IN
        /\ results' = [results EXCEPT
                          !.iterations = Append(@, Len(@) + 1)]
        /\ params' = filled
        /\ wparams' = wfilled
        /\ last_p_el' = filled.p_el
        /\ last_x_' = filled.x_
        /\ node' = [i \in Entities |->
                       PushedParams(i, held[Owner(i)].p_el, held[Owner(i)].x_,
                                    held[Owner(i)].u)]
    /\ solved' = {}
    /\ sent' = {}
    /\ pc' = "solve"
    /\ UNCHANGED << config, s, p_el_vars, solves, x_log, error >>
    /\ UNCHANGED << mpi4py, comm_size, backend, recv_buf, received, cl_vars, th_vars >>

\* worker r solves node i of its chunk
MPISolveNode(r, i) ==
    /\ backend = "mpi"
    /\ pc = "solve"
    /\ i \in Chunk(r)
    /\ i \notin solved
    /\ r \notin sent
    /\ solved' = solved \cup {i}
    /\ solves' = [solves EXCEPT ![i] = @ + 1]
    /\ \E p \in Minimisers(i) : p_el_vars' = [p_el_vars EXCEPT ![i] = p]
    /\ UNCHANGED << config, pc, results, params, last_p_el, last_x_, s, node,
                    x_log, error >>
    /\ UNCHANGED << mpi_vars, cl_vars, th_vars >>

\* worker r >= 1 has solved its chunk and sends its schedules to rank 0
MPISend(r) ==
    /\ backend = "mpi"
    /\ pc = "solve"
    /\ r \in Workers \ {0}
    /\ r \notin sent
    /\ Chunk(r) \subseteq solved
    /\ recv_buf' = [i \in Entities |->
                       IF i \in Chunk(r) THEN p_el_vars[i] ELSE recv_buf[i]]
    /\ sent' = sent \cup {r}
    /\ UNCHANGED << admm_vars, mpi4py, comm_size, backend, wparams, received,
                    cl_vars, th_vars >>

\* rank 0 has every schedule, in the order of the node list: steps 2) to 4)
MPIUpdateSignal ==
    /\ backend = "mpi"
    /\ pc = "solve"
    /\ Chunk(0) \subseteq solved
    /\ sent = Workers \ {0}
    /\ LET p_el_schedules == [i \in Entities |->
                                 IF Owner(i) = 0 THEN p_el_vars[i] ELSE recv_buf[i]]
           x_ == ConsensusSignal(p_el_schedules)
           sv == [i \in Entities |-> [t \in Steps |->
                     DualResidual(i, t, p_el_schedules, last_p_el, last_x_, x_)]]
       IN
        /\ s' = sv
        /\ results' = AppendNorms(results, r_norm_sq(x_), s_norm_sq(sv))
        /\ params' = SaveParams(params, p_el_schedules, x_)
        /\ x_log' = Append(x_log, x_)
    /\ received' = {}
    /\ pc' = "check"
    /\ UNCHANGED << config, last_p_el, last_x_, node, p_el_vars, solved, solves,
                    error >>
    /\ UNCHANGED << mpi4py, comm_size, backend, wparams, recv_buf, sent, cl_vars, th_vars >>

\* rank 0 redistributes the signal: worker r receives the saved parameters
MPIBroadcast(r) ==
    /\ backend = "mpi"
    /\ pc \in {"check", "iterate", "done"}
    /\ r \in Workers \ {0}
    /\ r \notin received
    /\ wparams' = [wparams EXCEPT ![r] = params]
    /\ received' = received \cup {r}
    /\ UNCHANGED << admm_vars, mpi4py, comm_size, backend, recv_buf, sent,
                    cl_vars, th_vars >>

\* rank 0 evaluates the loop test
MPICheckLastIteration ==
    /\ backend = "mpi"
    /\ pc = "check"
    /\ pc' = IF IsLastIteration THEN "done" ELSE "iterate"
    /\ UNCHANGED << config, results, params, last_p_el, last_x_, s, node,
                    p_el_vars, solved, solves, x_log, error >>
    /\ UNCHANGED << mpi_vars, cl_vars, th_vars >>

MPINext ==
    \/ MPIPresolve
    \/ MPIBeginIteration
    \/ \E r \in Workers : \E i \in Entities : MPISolveNode(r, i)
    \/ \E r \in Workers : MPISend(r)
    \/ MPIUpdateSignal
    \/ \E r \in Workers : MPIBroadcast(r)
    \/ MPICheckLastIteration

SpecMPI == MPIInit /\ [][MPINext]_vars

\* ------------------------------------------------------ the curtailable load
\* P_El_Nom and max_curtailment of the load, with P_El_Curt = P_El_Nom * max_curt
P_El_Nom == 10
max_curt == Frac(1, 5)
P_El_Curt == (P_El_Nom * max_curt.n) \div max_curt.d

\* the window length of the rolling-horizon example of the spec
ExampleHorizon == 6

\* the steps of the optimisation window, self.op_time_vec
op_time_vec == 0 .. (horizon - 1)
\* environment.timer.timestepsTotal
simu_horizon == horizon + MaxAdvance
SimuSteps == 0 .. (simu_horizon - 1)

\* the values a power variable can take between its bounds lb and ub
Levels == {P_El_Curt, P_El_Nom}

\* right-hand sides: a number, -GRB.INFINITY or +GRB.INFINITY
Fin(k) == [inf |-> 0, val |-> k]
NegInfinity == [inf |-> -1, val |-> 0]
PosInfinity == [inf |-> 1, val |-> 0]
\* x >= rhs and x <= rhs for a number x
GeqRHS(x, rhs) == rhs.inf = -1 \/ (rhs.inf = 0 /\ x >= rhs.val)
LeqRHS(x, rhs) == rhs.inf = 1 \/ (rhs.inf = 0 /\ x <= rhs.val)

Min(a, b) == IF a <= b THEN a ELSE b
Max(a, b) == IF a >= b THEN a ELSE b

RECURSIVE SumRange(_, _, _)
\* sum(f[a:b]) of a list f indexed from 0: the entries a .. b-1
SumRange(f, a, b) == IF a >= b THEN 0 ELSE f[a] + SumRange(f, a + 1, b)

\* len(x[a:b]) for a list of n entries and 0 <= a, 0 <= b
SliceLen(n, a, b) == Max(0, Min(b, n) - Min(a, n))

\* the 1-based position of seq[k] for a Python index k (a negative k counts
\* from the end); 0 when Python raises IndexError
PyIndex(seq, k) ==
    IF k >= 0 THEN (IF k < Len(seq) THEN k + 1 ELSE 0)
    ELSE (IF Len(seq) + k >= 0 THEN Len(seq) + k + 1 ELSE 0)

\* a changed assignment: the index is taken as a position counted from 1
PySet_OneBased(seq, k, v) ==
    IF k >= 1 /\ k <= Len(seq) THEN [seq EXCEPT ![k] = v] ELSE seq

\* seq[k].RHS = v
PySet(seq, k, v) == [seq EXCEPT ![PyIndex(seq, k)] = v]

\* the arguments max_low, min_full a constructor call can be given
ArgValues ==
    { a \in [max_low : {None} \cup { Some(k) : k \in -1 .. MaxLow },
             min_full : {None} \cup { Some(k) : k \in 0 .. MinFull }] :
        \* the example of the spec is run with its own arguments
        horizon = ExampleHorizon => (a.max_low = Some(2) /\ a.min_full = Some(2)) }

\* a changed Accepted: the lower limit of min_full is 0
Accepted_MinFullZero(a) ==
    IF a.max_low # None \/ a.min_full # None
    THEN /\ a.max_low # None
         /\ a.min_full # None
         /\ a.min_full[1] >= 0
         /\ a.max_low[1] >= 0
    ELSE TRUE

\* the four assertions of __init__ hold
Accepted(a) ==
    IF a.max_low # None \/ a.min_full # None
    THEN /\ a.max_low # None
         /\ a.min_full # None
         /\ a.min_full[1] >= 1
         /\ a.max_low[1] >= 0
    ELSE TRUE

\* the load has max_low and min_full and max_low is not 0: populate_model
\* generates the constraints of the mode
Constrained == max_low # None /\ max_low[1] # 0

\* max_overlap of the integer branch of populate_model
MaxOverlapState == Min(Max(max_low[1], min_full[1] - 1), horizon)
\* max_overlap of the relaxed branch of populate_model
MaxOverlapPower == Min(max_low[1] + min_full[1] - 1, horizon)

\* n constraints with the right-hand side -GRB.INFINITY
\* a changed initial bound: the handles start at 1
Unbounded_One(n) == [k \in 1 .. n |-> Fin(1)]

Unbounded(n) == [k \in 1 .. n |-> NegInfinity]

\* lb of the power variables after populate_model
LowerBound == IF max_low # None /\ max_low[1] = 0 THEN P_El_Nom ELSE P_El_Curt

\* ---- the constraints of the model, over the values v of P_State_vars and
\* ---- p of P_El_vars (functions on op_time_vec)
\* self.P_State_vars[t] * self.P_El_Nom <= self.P_El_vars[t]
Coupling(v, p) == \A t \in op_time_vec : v[t] * P_El_Nom <= p[t]

\* sum(P_State_vars[:k]) >= RHS for the k-th handle of constr_previous_state
PreviousStateConstrs(v) ==
    \A k \in 1 .. Len(constr_previous_state) :
        GeqRHS(SumRange(v, 0, Min(k, horizon)), constr_previous_state[k])

\* at least one step at 100% in every range of max_low + 1 steps of the window
MaxLowConstrs(v) ==
    \A t \in op_time_vec :
        SliceLen(horizon, t, t + max_low[1] + 1) = max_low[1] + 1 =>
            SumRange(v, t, t + max_low[1] + 1) >= 1

\* constr_previous_start: P_State_vars[0] * len(next_states) - sum(next_states) <= RHS
PreviousStartConstr(v) ==
    constr_previous_start # None =>
        LeqRHS(v[0] * SliceLen(horizon, 1, min_full[1])
                 - SumRange(v, 1, Min(min_full[1], horizon)),
               constr_previous_start[1])

\* a changed MinFullConstrs: the loop stops one step earlier
MinFullConstrs_Short(v) ==
    min_full[1] > 1 =>
        \A t \in 0 .. (horizon - 4) :
            (v[t + 1] - v[t]) * SliceLen(horizon, t + 2, t + min_full[1] + 1)
                <= SumRange(v, t + 2, Min(t + min_full[1] + 1, horizon))

\* a switch from 0 to 1 inside the window is followed by min_full - 1 steps at 1
MinFullConstrs(v) ==
    min_full[1] > 1 =>
        \A t \in 0 .. (horizon - 3) :
            (v[t + 1] - v[t]) * SliceLen(horizon, t + 2, t + min_full[1] + 1)
                <= SumRange(v, t + 2, Min(t + min_full[1] + 1, horizon))

\* the constraints of the integer branch on the state variables
IntegerConstrs(v) ==
    /\ PreviousStateConstrs(v)
    /\ MaxLowConstrs(v)
    /\ PreviousStartConstr(v)
    /\ MinFullConstrs(v)

\* sum(P_El_vars[t:t + width]) >= P_El_Nom * min_full + P_El_Curt * max_low
WidthConstrs(p) ==
    LET width == min_full[1] + max_low[1] IN
    \A t \in 0 .. (horizon - width) :
        SumRange(p, t, t + width) >= P_El_Nom * min_full[1] + P_El_Curt * max_low[1]

\* changed handles: the bounds of constr_previous are not imposed
PreviousConstrs_Ignored(p) == TRUE

\* sum(P_El_vars[:overlap]) >= RHS for the handles of constr_previous
PreviousConstrs(p) ==
    \A o \in 1 .. Len(constr_previous) :
        GeqRHS(SumRange(p, 0, Min(o, horizon)), constr_previous[o])

\* the values of P_El_vars a solve can return: the trajectories within the
\* bounds for which the constraints of the populated mode can be met
Solutions ==
    LET boxed == { p \in [op_time_vec -> Levels] :
                     \A t \in op_time_vec : p[t] >= LowerBound }
    IN  IF ~Constrained THEN boxed
        ELSE IF mode = "integer"
        THEN LET states == { v \in [op_time_vec -> {0, 1}] : IntegerConstrs(v) }
             IN  { p \in boxed : \E v \in states : Coupling(v, p) }
        ELSE { p \in boxed : WidthConstrs(p) /\ PreviousConstrs(p) }

\* the lambda of new_var("P_State"): P_El_vars[t].x > 0.99 * P_El_Nom
P_State(x) == 100 * x > 99 * P_El_Nom

\* ---- update_model
\* full_ts / low_ts after the while loop: the number of steps before the
\* window, counted back from timestep - 1, whose state is b
RunLength(b) ==
    LET RECURSIVE run(_)
        run(n) == IF (timestep - n - 1) >= 0 /\ P_State_Schedule[timestep - n - 1] = b
                  THEN run(n + 1) ELSE n
    IN  run(1)

\* "assert low_ts <= self.max_low" fails in one of the rounds of the loop,
\* which are entered with low_ts = 1 .. RunLength(FALSE) - 1
LowAssertionFails == RunLength(FALSE) - 1 > max_low[1]

\* the integer block of update_model runs
IntegerBlockRuns == timestep # 0 /\ Len(constr_previous_state) > 0

\* a changed index: a run of full output that reaches back to the start of
\* the simulation is counted like any other
WrittenIndex_NoStartCheck ==
    LET remaining_fulls == min_full[1] - RunLength(TRUE)
        overlap == max_low[1] - RunLength(FALSE) + 1
    IN  IF P_State_Schedule[timestep - 1]
        THEN IF remaining_fulls <= 0 THEN None
             ELSE IF remaining_fulls > horizon THEN Some(-1)
             ELSE Some(remaining_fulls - 1)
        ELSE IF horizon >= overlap THEN Some(overlap - 1) ELSE None

\* the Python index the integer block writes a bound at, None when it writes none
WrittenIndex ==
    LET full_ts == RunLength(TRUE)
        remaining_fulls == min_full[1] - full_ts
        overlap == max_low[1] - RunLength(FALSE) + 1
    IN  IF P_State_Schedule[timestep - 1]
        THEN IF timestep - full_ts - 1 < 0 THEN None
             ELSE IF remaining_fulls <= 0 THEN None
             ELSE IF remaining_fulls > horizon THEN Some(-1)
             ELSE Some(remaining_fulls - 1)
        ELSE IF horizon >= overlap THEN Some(overlap - 1) ELSE None

\* a changed bound: after a step under 100% the bound written is 0
WrittenBound_LowUnbound ==
    LET remaining_fulls == min_full[1] - RunLength(TRUE)
    IN  IF P_State_Schedule[timestep - 1]
        THEN IF remaining_fulls > horizon THEN Fin(horizon) ELSE Fin(remaining_fulls)
        ELSE Fin(0)

\* the bound the integer block writes there
WrittenBound ==
    LET remaining_fulls == min_full[1] - RunLength(TRUE)
    IN  IF P_State_Schedule[timestep - 1]
        THEN IF remaining_fulls > horizon THEN Fin(horizon) ELSE Fin(remaining_fulls)
        ELSE Fin(1)

\* a changed start bound: the bound is 0 after a step at 100%
UpdatedPreviousStart_Swapped ==
    IF constr_previous_start = None THEN None
    ELSE IF P_State_Schedule[timestep - 1] THEN Some(Fin(0)) ELSE Some(PosInfinity)

\* constr_previous_start.RHS after the integer block
UpdatedPreviousStart ==
    IF constr_previous_start = None THEN None
    ELSE IF P_State_Schedule[timestep - 1] THEN Some(PosInfinity) ELSE Some(Fin(0))

\* a changed reset: the bounds of the previous call are kept
UpdatedPreviousState_NoReset ==
    IF WrittenIndex = None THEN constr_previous_state
    ELSE PySet(constr_previous_state, WrittenIndex[1], WrittenBound)

\* a changed update: a constraint is added and its handle kept
UpdatedPreviousState_Recreated ==
    LET reset == Unbounded(Len(constr_previous_state))
    IN  (IF WrittenIndex = None THEN reset
         ELSE PySet(reset, WrittenIndex[1], WrittenBound)) \o << NegInfinity >>

\* the right-hand sides of constr_previous_state after the integer block
UpdatedPreviousState ==
    LET reset == Unbounded(Len(constr_previous_state))
    IN  IF WrittenIndex = None THEN reset
        ELSE PySet(reset, WrittenIndex[1], WrittenBound)

\* the integer block raises IndexError
IndexFails ==
    /\ ~LowAssertionFails \/ P_State_Schedule[timestep - 1]
    /\ WrittenIndex # None
    /\ PyIndex(constr_previous_state, WrittenIndex[1]) = 0

\* the list required of the relaxed block, indexed from 0
required == [k \in 0 .. (min_full[1] + max_low[1] - 1) |->
                IF k < max_low[1] THEN P_El_Curt ELSE P_El_Nom]

\* a changed bound: the power already consumed is not subtracted
RelaxedBound_NoHistory(overlap) ==
    LET width == min_full[1] + max_low[1]
        start_t == timestep - (width - overlap)
        kept == IF start_t < 0 THEN Max(0, width + start_t) ELSE width
    IN  Fin(SumRange(required, 0, kept))

\* the right-hand side the relaxed block writes for the overlap-th handle
RelaxedBound(overlap) ==
    LET width == min_full[1] + max_low[1]
        start_t == timestep - (width - overlap)
        kept == IF start_t < 0 THEN Max(0, width + start_t) ELSE width
        already_done == SumRange(P_El_Schedule, Max(start_t, 0), timestep)
    IN  Fin(SumRange(required, 0, kept) - already_done)

\* "assert len(already_done) + overlap == len(required)" fails for a handle
RelaxedAssertionFails ==
    \E overlap \in 1 .. Len(constr_previous) :
        LET width == min_full[1] + max_low[1]
            start_t == timestep - (width - overlap)
            kept == IF start_t < 0 THEN Max(0, width + start_t) ELSE width
        IN  (timestep - Max(start_t, 0)) + overlap # kept

\* ------------------------------------------------- the actions of the load
\* the coordinator is not run
InitNoCoordinator ==
    /\ max_iterations = 1
    /\ eps_primal = [inf |-> TRUE, val |-> 0]
    /\ eps_dual = [inf |-> TRUE, val |-> 0]
    /\ cost = [i \in Buildings |-> [t \in Steps |-> 0]]
    /\ pc = "off"
    /\ results = << >>
    /\ params = << >>
    /\ last_p_el = ZeroSchedules
    /\ last_x_ = ZeroVector
    /\ s = [i \in Entities |-> ZeroVector]
    /\ node = [i \in Entities |-> PushedParams(i, ZeroSchedules, ZeroVector, ZeroVector)]
    /\ p_el_vars = ZeroSchedules
    /\ solved = {}
    /\ solves = [i \in Entities |-> 0]
    /\ x_log = << >>
    /\ error = NoError

\* the environment exists, the load is about to be constructed
CLInit ==
    /\ InitNoCoordinator
    /\ InitSequentialBackend
    /\ InitNoThermal
    /\ populated = 0
    /\ cl_pc = "new"
    /\ horizon \in (1 .. MaxHorizon) \cup {ExampleHorizon}
    /\ args = [max_low |-> None, min_full |-> None]
    /\ max_low = None
    /\ min_full = None
    /\ mode = "none"
    /\ timestep = 0
    /\ P_El_Schedule = << >>
    /\ P_State_Schedule = << >>
    /\ P_El_vars = << >>
    /\ constr_previous_state = << >>
    /\ constr_previous_start = None
    /\ constr_previous = << >>

\* CurtailableLoad.__init__
Construct(a) ==
    /\ cl_pc = "new"
    /\ args' = a
    /\ IF Accepted(a)
       THEN /\ max_low' = a.max_low
            /\ min_full' = a.min_full
            /\ P_El_Schedule' = [t \in SimuSteps |-> 0]
            /\ P_State_Schedule' = [t \in SimuSteps |-> FALSE]
            /\ cl_pc' = "constructed"
       ELSE /\ cl_pc' = "rejected"
            /\ UNCHANGED << max_low, min_full, P_El_Schedule, P_State_Schedule >>
    /\ UNCHANGED << horizon, mode, timestep, P_El_vars, constr_previous_state,
                    constr_previous_start, constr_previous >>
    /\ UNCHANGED << populated, admm_vars, mpi_vars, th_vars >>

\* the body of CurtailableLoad.populate_model: the handle lists are appended
\* to, whatever they hold
populate_model(m) ==
    /\ IF m \in {"convex", "integer"}
       THEN /\ mode' = m
            /\ cl_pc' = "ready"
            /\ IF Constrained /\ m = "integer"
               THEN /\ constr_previous_state' =
                          constr_previous_state \o Unbounded(MaxOverlapState)
                    /\ constr_previous_start' =
                          IF min_full[1] > 1 THEN Some(PosInfinity)
                          ELSE constr_previous_start
                    /\ UNCHANGED constr_previous
               ELSE IF Constrained
               THEN /\ constr_previous' = constr_previous \o Unbounded(MaxOverlapPower)
                    /\ UNCHANGED << constr_previous_state, constr_previous_start >>
               ELSE UNCHANGED << constr_previous_state, constr_previous_start,
                                 constr_previous >>
       ELSE \* raise ValueError
            /\ cl_pc' = "value_error"
            /\ UNCHANGED << mode, constr_previous_state, constr_previous_start,
                            constr_previous >>
    /\ UNCHANGED << args, max_low, min_full, horizon, timestep, P_El_Schedule,
                    P_State_Schedule, P_El_vars >>
    /\ populated' = populated + 1
    /\ UNCHANGED << admm_vars, mpi_vars, th_vars >>

\* CurtailableLoad.populate_model, called on the new entity
Populate(m) ==
    /\ cl_pc = "constructed"
    /\ populate_model(m)

\* CurtailableLoad.update_model
UpdateModel ==
    /\ cl_pc = "ready"
    /\ IF IntegerBlockRuns
       THEN /\ constr_previous_start' = UpdatedPreviousStart
            /\ constr_previous_state' =
                  IF (~P_State_Schedule[timestep - 1] /\ LowAssertionFails) \/ IndexFails
                  THEN Unbounded(Len(constr_previous_state))
                  ELSE UpdatedPreviousState
       ELSE UNCHANGED << constr_previous_state, constr_previous_start >>
    /\ LET raised == IF IntegerBlockRuns /\ ~P_State_Schedule[timestep - 1]
                        /\ LowAssertionFails
                     THEN "assertion_error"
                     ELSE IF IntegerBlockRuns /\ IndexFails THEN "index_error"
                     ELSE IF Len(constr_previous) > 0 /\ RelaxedAssertionFails
                     THEN "assertion_error"
                     ELSE "none"
       IN  /\ cl_pc' = IF raised = "none" THEN "updated" ELSE raised
           /\ constr_previous' =
                 IF raised = "none"
                 THEN [o \in 1 .. Len(constr_previous) |-> RelaxedBound(o)]
                 ELSE constr_previous
    /\ UNCHANGED << args, max_low, min_full, horizon, mode, timestep, P_El_Schedule,
                    P_State_Schedule, P_El_vars >>
    /\ UNCHANGED << populated, admm_vars, mpi_vars, th_vars >>

\* the solver returns an assignment that satisfies the constraints
Solve ==
    /\ cl_pc = "updated"
    /\ \E p \in Solutions : P_El_vars' = p
    /\ cl_pc' = "solved"
    /\ UNCHANGED << args, max_low, min_full, horizon, mode, timestep, P_El_Schedule,
                    P_State_Schedule, constr_previous_state, constr_previous_start,
                    constr_previous >>
    /\ UNCHANGED << populated, admm_vars, mpi_vars, th_vars >>

\* update_schedule: the window [timestep, timestep + op_horizon) of every
\* schedule is taken from the solution
UpdateSchedule ==
    /\ cl_pc = "solved"
    /\ P_El_Schedule' =
          [t \in SimuSteps |->
              IF timestep <= t /\ t < timestep + horizon
              THEN P_El_vars[t - timestep] ELSE P_El_Schedule[t]]
    /\ P_State_Schedule' =
          [t \in SimuSteps |->
              IF timestep <= t /\ t < timestep + horizon
              THEN P_State(P_El_vars[t - timestep]) ELSE P_State_Schedule[t]]
    /\ cl_pc' = "scheduled"
    /\ UNCHANGED << args, max_low, min_full, horizon, mode, timestep, P_El_vars,
                    constr_previous_state, constr_previous_start, constr_previous >>
    /\ UNCHANGED << populated, admm_vars, mpi_vars, th_vars >>

\* the timer moves on by n steps of the window just scheduled
Advance(n) ==
    /\ cl_pc = "scheduled"
    /\ timestep + n <= MaxAdvance
    /\ timestep' = timestep + n
    /\ cl_pc' = "ready"
    /\ UNCHANGED << args, max_low, min_full, horizon, mode, P_El_Schedule,
                    P_State_Schedule, P_El_vars, constr_previous_state,
                    constr_previous_start, constr_previous >>
    /\ UNCHANGED << populated, admm_vars, mpi_vars, th_vars >>

CLNext ==
    \/ \E a \in ArgValues : Construct(a)
    \/ \E m \in {"convex", "integer", "robust"} : Populate(m)
    \/ UpdateModel
    \/ Solve
    \/ UpdateSchedule
    \/ \E n \in 1 .. horizon : Advance(n)

SpecCL == CLInit /\ [][CLNext]_vars

\* ---- the load under any sequence of calls: populate_model again, update_model
\* at any timestep after any realized schedule

\* CurtailableLoad.populate_model, called again on a populated entity
Repopulate(m) ==
    /\ cl_pc \in {"ready", "updated"}
    /\ populated < MaxPopulate
    /\ populate_model(m)

\* the histories a schedule can hold before step t
Histories(t) == [0 .. (t - 1) -> Levels]

\* the timer is set to step t (0 after a reset of the timer), the schedule
\* before t holding the realized powers h
SetHistory(t, h) ==
    /\ cl_pc \in {"ready", "updated"}
    /\ timestep' = t
    /\ P_El_Schedule' = [k \in SimuSteps |-> IF k < t THEN h[k] ELSE 0]
    /\ P_State_Schedule' = [k \in SimuSteps |-> IF k < t THEN P_State(h[k]) ELSE FALSE]
    /\ cl_pc' = "ready"
    /\ UNCHANGED << args, max_low, min_full, horizon, mode, P_El_vars,
                    constr_previous_state, constr_previous_start, constr_previous >>
    /\ UNCHANGED << populated, admm_vars, mpi_vars, th_vars >>

CallsNext ==
    \/ \E a \in ArgValues : Construct(a)
    \/ \E m \in {"convex", "integer", "robust"} : Populate(m)
    \/ \E m \in {"convex", "integer", "robust"} : Repopulate(m)
    \/ \E t \in 0 .. MaxAdvance : \E h \in Histories(t) : SetHistory(t, h)
    \/ UpdateModel

SpecCalls == CLInit /\ [][CallsNext]_vars

\* ---- a ThermalEntity: its schedules over the simulation

\* np.zeros(self.simu_horizon)
ZeroSchedule == [k \in SimuSteps |-> 0]

\* the thermal powers a solve can leave in P_Th_vars: every step of the window
\* gets a value of its own, none of them 0
ThSolutions == { [t \in op_time_vec |-> c + t] : c \in {1, 2} }

\* a changed slice: the values are written from the start of the schedule
SliceAssign_FromStart(schedule, t1, t2, values) ==
    [k \in DOMAIN schedule |-> IF k < t2 - t1 THEN values[k] ELSE schedule[k]]

\* schedule[t1:t2] = values
SliceAssign(schedule, t1, t2, values) ==
    [k \in DOMAIN schedule |->
        IF t1 <= k /\ k < t2 THEN values[k - t1] ELSE schedule[k]]

\* ThermalEntity.__init__ with a timer of op_horizon steps per window
ThInit ==
    /\ InitNoCoordinator
    /\ InitSequentialBackend
    /\ cl_pc = "off"
    /\ args = [max_low |-> None, min_full |-> None]
    /\ max_low = None
    /\ min_full = None
    /\ horizon \in 1 .. MaxHorizon
    /\ mode = "none"
    /\ timestep = 0
    /\ P_El_Schedule = << >>
    /\ P_State_Schedule = << >>
    /\ P_El_vars = << >>
    /\ constr_previous_state = << >>
    /\ constr_previous_start = None
    /\ constr_previous = << >>
    /\ populated = 0
    /\ th_pc = "new"
    /\ P_Th_vars = << >>
    /\ P_Th_Schedule = ZeroSchedule
    /\ P_Th_Ref_Schedule = ZeroSchedule

\* ThermalEntity.populate_model
ThPopulate ==
    /\ th_pc \in {"new", "populated", "solved", "scheduled"}
    /\ th_pc' = "populated"
    /\ P_Th_vars' = << >>
    /\ UNCHANGED << P_Th_Schedule, P_Th_Ref_Schedule >>
    /\ UNCHANGED << admm_vars, mpi_vars, cl_vars >>

\* the solver leaves a value in every variable of P_Th_vars
ThSolve ==
    /\ th_pc \in {"populated", "solved", "scheduled"}
    /\ \E p \in ThSolutions : P_Th_vars' = p
    /\ th_pc' = "solved"
    /\ UNCHANGED << P_Th_Schedule, P_Th_Ref_Schedule >>
    /\ UNCHANGED << admm_vars, mpi_vars, cl_vars >>

\* ThermalEntity.update_schedule
ThUpdateSchedule ==
    /\ th_pc = "solved"
    /\ LET t1 == timestep
           t2 == t1 + horizon
       IN  P_Th_Schedule' = SliceAssign(P_Th_Schedule, t1, t2, P_Th_vars)
    /\ th_pc' = "scheduled"
    /\ UNCHANGED << P_Th_vars, P_Th_Ref_Schedule >>
    /\ UNCHANGED << admm_vars, mpi_vars, cl_vars >>

\* ThermalEntity.save_ref_schedule
ThSaveRefSchedule ==
    /\ th_pc # "off"
    /\ P_Th_Ref_Schedule' = P_Th_Schedule
    /\ UNCHANGED << th_pc, P_Th_vars, P_Th_Schedule >>
    /\ UNCHANGED << admm_vars, mpi_vars, cl_vars >>

\* ThermalEntity.reset(schedule, reference)
ThReset(schedule, reference) ==
    /\ th_pc # "off"
    /\ P_Th_Schedule' = IF schedule THEN ZeroSchedule ELSE P_Th_Schedule
    /\ P_Th_Ref_Schedule' = IF reference THEN ZeroSchedule ELSE P_Th_Ref_Schedule
    /\ UNCHANGED << th_pc, P_Th_vars >>
    /\ UNCHANGED << admm_vars, mpi_vars, cl_vars >>

\* the timer moves on by n steps of the window just scheduled
ThAdvance(n) ==
    /\ th_pc = "scheduled"
    /\ timestep + n <= MaxAdvance
    /\ timestep' = timestep + n
    /\ UNCHANGED << cl_pc, args, max_low, min_full, horizon, mode, P_El_Schedule,
                    P_State_Schedule, P_El_vars, constr_previous_state,
                    constr_previous_start, constr_previous, populated >>
    /\ UNCHANGED << admm_vars, mpi_vars, th_vars >>

ThNext ==
    \/ ThPopulate
    \/ ThSolve
    \/ ThUpdateSchedule
    \/ ThSaveRefSchedule
    \/ \E schedule, reference \in BOOLEAN : ThReset(schedule, reference)
    \/ \E n \in 1 .. horizon : ThAdvance(n)

SpecTh == ThInit /\ [][ThNext]_vars

\* ------------------------------------------------------------- properties
\* the results dict of a run exists from _presolve on
HasResults == pc # "idle"
\* the params dict holds p_el, x_ and u from the first _iteration of a run on
HasParams == "x_" \in DOMAIN params
\* an iteration has been completed and the loop is between two steps
BetweenIterations == pc \in {"check", "done", "iterate"}

RECURSIVE ISum(_, _)
\* sum of the integers f[k], k in S
ISum(f, S) ==
    IF S = {} THEN 0
    ELSE LET k == CHOOSE k \in S : TRUE IN f[k] + ISum(f, S \ {k})

Sign(i) == IF i = 0 THEN -1 ELSE 1

\* C1: the iteration cap wins over the residual test.  The loop never goes on
\* to another iteration from a state in which the base test reports the cap,
\* whatever the recorded norms are, and no run executes more than
\* max_iterations iterations.
C1_CapWins ==
    HasResults =>
        /\ Len(results.iterations) <= max_iterations
        /\ \A i \in Entities : solves[i] <= max_iterations
        /\ (pc = "iterate" /\ results.iterations # << >>) => ~BaseIsLastIteration

\* C1 witness: a run stopped by the cap although the residual test fails
C1_Witness ==
    /\ pc = "done"
    /\ max_iterations >= 2
    /\ BaseIsLastIteration
    /\ ~Converged

\* C2 as stated: a run that is done after one iteration was stopped by the
\* cap, never by the residual test.
C2_Original ==
    (pc = "done" /\ Len(results.iterations) = 1) => BaseIsLastIteration

\* C2 amended: the residual test is evaluated after every iteration, the
\* first included.  A run is done exactly when the cap is reached or the
\* norms of the last iteration are within both thresholds, and it goes on
\* exactly when neither holds.
C2_TestAfterEveryIteration ==
    /\ pc = "done" => (BaseIsLastIteration \/ Converged)
    /\ (pc = "iterate" /\ results.iterations # << >>) =>
           (~BaseIsLastIteration /\ ~Converged)

\* C2 witness: a run ended by convergence after its first iteration, below the cap
C2_Witness ==
    /\ pc = "done"
    /\ Len(results.iterations) = 1
    /\ max_iterations > 1
    /\ Converged

\* C3 as stated: with both thresholds +infinity a finished run has executed
\* exactly max_iterations iterations.
C3_Original ==
    (pc = "done" /\ eps_primal.inf /\ eps_dual.inf) =>
        Len(results.iterations) = max_iterations

\* C3 amended: with both thresholds +infinity a run ends after exactly one
\* iteration, whatever the cap; a run executes exactly max_iterations
\* iterations when a threshold can never be met (a negative threshold).
C3_InfiniteThresholdsStopAtOnce ==
    pc = "done" =>
        /\ (eps_primal.inf /\ eps_dual.inf) => Len(results.iterations) = 1
        /\ ((~eps_primal.inf /\ eps_primal.val < 0) \/ (~eps_dual.inf /\ eps_dual.val < 0))
               => Len(results.iterations) = max_iterations

\* C3 witness: infinite thresholds, a cap of three, a run done after one iteration
C3_Witness ==
    /\ pc = "done"
    /\ eps_primal.inf /\ eps_dual.inf
    /\ max_iterations = 3
    /\ Len(results.r_norms) = 1

\* C4: r_norms and s_norms start empty, grow by one entry each per executed
\* iteration, so both have the length of the number of iterations executed,
\* which never exceeds the cap.
C4_OneEntryPerIteration ==
    HasResults =>
        /\ Len(results.r_norms) = Len(results.s_norms)
        /\ Len(results.r_norms) <= max_iterations
        /\ Len(results.r_norms) = Len(x_log)
        /\ BetweenIterations =>
               /\ Len(results.r_norms) = Len(results.iterations)
               /\ \A i \in Entities : solves[i] = Len(results.r_norms)
        /\ pc = "solve" => Len(results.r_norms) = Len(results.iterations) - 1

\* C4 witness: a finished run of several iterations that stopped below the cap
C4_Witness ==
    /\ pc = "done"
    /\ Len(results.r_norms) = 2
    /\ max_iterations = 3

\* C5: the stored consensus signal is (-p[0] + sum of the buildings' p) over
\* the number of entities, the district counted, at every step of the window,
\* for the trajectories stored with it, which are the ones just solved.
C5_ConsensusSignal ==
    /\ HasParams =>
           \A t \in Steps :
               params.x_[t].n * Cardinality(Entities) =
                   params.x_[t].d *
                       (ISum([i \in Buildings |-> params.p_el[i][t]], Buildings)
                            - params.p_el[0][t])
    /\ pc = "check" => params.p_el = p_el_vars

\* C5 witness: district and both buildings non-zero at a step, signal a proper fraction
C5_Witness ==
    /\ pc = "check"
    /\ \E t \in Steps :
           /\ params.p_el[0][t] > 0
           /\ params.p_el[1][t] > 0
           /\ params.p_el[2][t] > 0
           /\ params.x_[t].d # 1

\* the unit trajectory of step t, and its negative
Unit(t) == [k \in Steps |-> IF k = t THEN 1 ELSE 0]
NegUnit(t) == [k \in Steps |-> IF k = t THEN -1 ELSE 0]

\* what the coordinator adds to the local objective of node i, at trajectory p
Augmentation(i, p) ==
    RSub(Objective(i, p), RMul(Int2R(beta), get_objective(i, p)))

\* the coefficient of p[t] in Augmentation(i, .): half the difference of its
\* values at the unit trajectory and at its negative (the squares cancel)
LinearCoefficient(i, t) ==
    RDivInt(RSub(Augmentation(i, Unit(t)), Augmentation(i, NegUnit(t))), 2)

\* rho * sign(i) * (x[t] + u[t]) for the coordinator's x and u
SignalTerm(i, t) ==
    RMul(Int2R(rho * Sign(i)), RAdd(params.x_[t], params.u[t]))

\* rho * (sign(i) * (x[t] + u[t]) - lastP_i[t]) for the coordinator's x, u and
\* the trajectory of entity i stored by the previous iteration
AmendedCoefficient(i, t) ==
    RSub(SignalTerm(i, t), Int2R(rho * params.p_el[i][t]))

\* C6 as stated: while the nodes solve, the coefficient of p_i[t] in the
\* linear penalty term is rho * sign(i) * (x[t] + u[t]) and nothing else.
C6_Original ==
    pc = "solve" =>
        \A i \in Entities, t \in Steps : LinearCoefficient(i, t) = SignalTerm(i, t)

\* C6 amended: the coefficient of p_i[t] is
\* rho * (sign(i) * (x[t] + u[t]) - lastP_i[t]), lastP_i the trajectory of
\* entity i stored by the previous iteration, with sign(0) = -1 and
\* sign(i) = +1 for i >= 1; the objective a node minimises is
\* beta * local_objective(p) + rho/2 * ||p||^2 + the sum of coefficient * p[t].
C6_PenaltyCoefficient ==
    pc = "solve" =>
        \A i \in Entities :
            /\ \A t \in Steps : LinearCoefficient(i, t) = AmendedCoefficient(i, t)
            /\ \A p \in Trajectories :
                   Objective(i, p) =
                       RAdd(RMul(Int2R(beta), get_objective(i, p)),
                            RAdd(RMul(Frac(rho, 2),
                                      Int2R(ISum([t \in Steps |-> p[t] * p[t]], Steps))),
                                 RSum([t \in Steps |->
                                          RMul(AmendedCoefficient(i, t), Int2R(p[t]))],
                                      Steps)))

\* C6 witness: a solve phase with a non-zero previous trajectory of the
\* district and of a building and a non-zero x + u at the same step
C6_Witness ==
    /\ pc = "solve"
    /\ \E t \in Steps :
           /\ params.p_el[0][t] # 0
           /\ \E i \in Buildings : params.p_el[i][t] # 0
           /\ RAdd(params.x_[t], params.u[t]) # RZero

\* C7: the dual residual of an iteration is
\* s[0] = -rho * (-p[0] + lastP[0] + lastX - x') for the district and
\* s[i] = -rho * (p[i] - lastP[i] + lastX - x') for a building, its squared
\* norm is what s_norms records, and lastP, lastX are what the previous
\* iteration stored (zero in the first iteration of a run).
C7_DualResidual ==
    /\ pc = "check" =>
           /\ \A t \in Steps :
                  /\ s[0][t] =
                         RMul(Int2R(-rho),
                              RAdd(Int2R(-params.p_el[0][t] + last_p_el[0][t]),
                                   RSub(last_x_[t], params.x_[t])))
                  /\ \A i \in Buildings :
                         s[i][t] =
                             RMul(Int2R(-rho),
                                  RAdd(Int2R(params.p_el[i][t] - last_p_el[i][t]),
                                       RSub(last_x_[t], params.x_[t])))
           /\ Last(results.s_norms) =
                  RSum([i \in Entities |->
                           RSum([t \in Steps |-> RMul(s[i][t], s[i][t])], Steps)],
                       Entities)
           /\ Len(x_log) >= 2 => last_x_ = x_log[Len(x_log) - 1]
    /\ pc = "solve" => (last_p_el = params.p_el /\ last_x_ = params.x_)
    /\ (pc \in {"solve", "check"} /\ Len(results.iterations) = 1) =>
           (last_p_el = ZeroSchedules /\ last_x_ = ZeroVector)

\* C7 witness: a later iteration in which the district and a building both
\* had a non-zero previous value and the signal moved
C7_Witness ==
    /\ pc = "check"
    /\ Len(results.iterations) >= 2
    /\ \E t \in Steps :
           /\ last_p_el[0][t] # 0
           /\ \E i \in Buildings : last_p_el[i][t] # 0
           /\ last_x_[t] # params.x_[t]
           /\ s[0][t] # s[1][t]

\* C8: every iteration stores u := u + x', x := x' and p := the trajectories
\* just solved; a run starts from u = x = p = 0, and after k iterations u is
\* the sum of the k consensus signals computed so far.
C8_DualAccumulator ==
    HasParams =>
        /\ \A t \in Steps :
               params.u[t] = RSum([k \in 1 .. Len(x_log) |-> x_log[k][t]],
                                  1 .. Len(x_log))
        /\ x_log = << >> =>
               /\ params.x_ = ZeroVector
               /\ params.u = ZeroVector
               /\ params.p_el = ZeroSchedules
        /\ x_log # << >> => params.x_ = Last(x_log)
        /\ BetweenIterations => params.p_el = p_el_vars

\* C8 witness: three iterations with non-zero signals at some step
C8_Witness ==
    /\ pc = "check"
    /\ Len(x_log) >= 3
    /\ \E t \in Steps : \A k \in 1 .. 3 : x_log[k][t] # RZero

\* C9: the protocol is synchronous.  The signal has been recomputed k times
\* only when every node has solved k times, and a node solves for the
\* (k+1)-th time only after the k-th signal, that is, after every node has
\* finished iteration k.
C9_Synchronous ==
    HasResults =>
        /\ \A i \in Entities :
               /\ Len(x_log) <= solves[i]
               /\ solves[i] <= Len(x_log) + 1
               /\ pc = "solve" => (i \in solved <=> solves[i] = Len(x_log) + 1)
               /\ BetweenIterations => solves[i] = Len(x_log)
        /\ \A i, j \in Entities : solves[i] <= solves[j] + 1

\* C9 witness: the middle of the solve phase of a second iteration
C9_Witness ==
    /\ pc = "solve"
    /\ Len(x_log) = 1
    /\ solved # {}
    /\ solved # Entities

\* the consensus signal as a node would read it from the coordinator
Signal ==
    IF HasParams THEN << params.x_, params.u >> ELSE << ZeroVector, ZeroVector >>

\* C10: (x, u) is written once per iteration, by the coordinator's step after
\* the solve phase (and reset when a new run starts); in the solve phase every
\* node holds the coordinator's x and u, and a node's solve changes neither
\* the signal nor any node's copy of it.
C10_SignalFrame ==
    [][ /\ pc' = "solve" =>
               \A i \in Entities :
                   node'[i].xs_ = params'.x_ /\ node'[i].us = params'.u
        /\ (pc = "solve" /\ pc' = "solve") =>
               (Signal' = Signal /\ node' = node)
        /\ Signal' # Signal =>
               \/ pc = "solve" /\ solved = Entities /\ pc' = "check"
               \/ pc = "done" /\ pc' = "iterate"
        /\ (pc = "solve" /\ pc' = "check") =>
               /\ Len(x_log') = Len(x_log) + 1
               /\ Signal' = << Last(x_log'),
                               [t \in Steps |-> RAdd(params.u[t], Last(x_log')[t])] >>
        /\ pc' \in {"check", "done"} => Len(x_log') = Len(results'.iterations)
      ]_vars

\* C10 witness: the middle of a solve phase with non-zero, different x and u
C10_Witness ==
    /\ pc = "solve"
    /\ solved # {}
    /\ solved # Entities
    /\ \E t \in Steps : params.x_[t] # RZero /\ params.u[t] # params.x_[t]

\* one process is at work: mpi4py is missing or MPI reports a single process
SingleWorker == ~mpi4py \/ comm_size = 1

C12_FailureAborts ==
    [][ /\ pc # "failed"
        /\ pc' = "failed" =>
               /\ pc = "solve"
               /\ error'.type = "SubproblemInfeasible"
               /\ error'.node \in Entities \ solved
               /\ params' = params
               /\ x_log' = x_log
               /\ results' = results
               /\ p_el_vars' = p_el_vars
               /\ Len(results.r_norms) = Len(results.iterations) - 1
               /\ Len(results.s_norms) = Len(results.iterations) - 1 ]_vars

\* C12 witness: a run has failed in its second iteration or later, at a node
\* other than the first, with norms of earlier iterations recorded
C12_Witness ==
    /\ pc = "failed"
    /\ error.node # 0
    /\ solved # {}
    /\ Len(results.r_norms) >= 1

\* ---- the curtailable load
\* the discrete (state indicator) encoding is populated
Discrete == mode = "integer" /\ Constrained
\* the relaxed encoding is populated
Relaxed == mode = "convex" /\ Constrained
\* the steps the timer has passed: their schedule entries are realized
Realized == 0 .. (timestep - 1)
\* update_model has run for the current timestep
Updated == cl_pc \in {"updated", "solved", "scheduled"}
\* the values the state indicators can take
Indicators == [op_time_vec -> {0, 1}]

\* C13: the constructor rejects the arguments exactly when one of max_low and
\* min_full is missing, or min_full < 1, or max_low < 0; a rejected
\* construction leaves no entity behind (nothing is populated or updated), and
\* every other construction is accepted.
C13_ConstructorRejects ==
    cl_pc \notin {"off", "new"} =>
        LET a == args
            invalid ==
                \/ (a.max_low = None) # (a.min_full = None)
                \/ (a.min_full # None /\ a.min_full[1] < 1)
                \/ (a.max_low # None /\ a.max_low[1] < 0)
        IN  /\ (cl_pc = "rejected") <=> invalid
            /\ cl_pc = "rejected" =>
                   /\ mode = "none"
                   /\ P_El_Schedule = << >>
                   /\ constr_previous_state = << >>
                   /\ constr_previous = << >>
            /\ cl_pc # "rejected" => (max_low = a.max_low /\ min_full = a.min_full)

\* C13 witness: both arguments are given, max_low is fine, min_full is 0, and
\* the construction is rejected
C13_Witness ==
    /\ cl_pc = "rejected"
    /\ args.max_low # None
    /\ args.min_full # None
    /\ args.max_low[1] >= 0
    /\ args.min_full[1] = 0

\* C14: in the discrete encoding the realized state schedule never holds more
\* than max_low consecutive reduced-output steps, so the counter low_ts of
\* update_model stays within max_low and its assertion never fails.
C14_MaxLowHolds ==
    Discrete =>
        /\ cl_pc # "assertion_error"
        /\ \A k \in Realized :
               (k + max_low[1]) \in Realized =>
                   \E j \in k .. (k + max_low[1]) : P_State_Schedule[j]
        /\ (timestep # 0 /\ ~P_State_Schedule[timestep - 1]) =>
               RunLength(FALSE) <= max_low[1]

\* C14 witness: update_model has counted max_low >= 2 reduced-output steps
\* before the window, a run that began after a full-output step
C14_Witness ==
    /\ Discrete
    /\ cl_pc = "updated"
    /\ timestep >= 1
    /\ ~P_State_Schedule[timestep - 1]
    /\ max_low[1] >= 2
    /\ RunLength(FALSE) = max_low[1]
    /\ RunLength(FALSE) < timestep

\* C15 as stated: in the discrete encoding, a switch of the realized state
\* schedule from reduced to full output at a step after the simulation start
\* is followed by at least min_full steps at full output.
C15_MinFullHolds ==
    Discrete =>
        \A k \in Realized :
            (k >= 1 /\ ~P_State_Schedule[k - 1] /\ P_State_Schedule[k]) =>
                \A j \in k .. (k + min_full[1] - 1) :
                    j \in Realized => P_State_Schedule[j]

\* C16: in the discrete encoding update_model at timestep 0 on a freshly
\* populated model leaves every history bound at its initial value:
\* -infinity for each constr_previous_state, +infinity for
\* constr_previous_start.
C16_NoBoundAtStart ==
    (Discrete /\ timestep = 0 /\ Updated) =>
        /\ Len(constr_previous_state) = MaxOverlapState
        /\ \A k \in 1 .. Len(constr_previous_state) :
               constr_previous_state[k] = NegInfinity
        /\ constr_previous_start # None => constr_previous_start[1] = PosInfinity
        /\ constr_previous_start # None <=> min_full[1] > 1

\* C16 witness: update_model has run at timestep 0 on a model with several
\* constr_previous_state handles and a constr_previous_start handle
C16_Witness ==
    /\ Discrete
    /\ timestep = 0
    /\ cl_pc = "updated"
    /\ Len(constr_previous_state) >= 2
    /\ constr_previous_start # None

\* C17 as stated: whenever the run of identical states before the window, of
\* full or of reduced output, reaches back to the start of the simulation,
\* every constr_previous_state bound is left at -infinity.
C17_Original ==
    (Discrete /\ Updated /\ timestep # 0) =>
        (RunLength(P_State_Schedule[timestep - 1]) = timestep =>
            \A k \in 1 .. Len(constr_previous_state) :
                constr_previous_state[k] = NegInfinity)

\* C17 amended: when a run of full output before the window reaches back to
\* the start of the simulation, every constr_previous_state bound is left at
\* -infinity; a run of reduced output of low_ts steps is counted also when it
\* reaches back to the start: the handle of the first max_low - low_ts + 1
\* steps gets the bound 1 whenever that number is within op_horizon.
C17_FullRunFromStart ==
    (Discrete /\ Updated /\ timestep # 0) =>
        /\ (P_State_Schedule[timestep - 1] /\ RunLength(TRUE) = timestep) =>
               \A k \in 1 .. Len(constr_previous_state) :
                   constr_previous_state[k] = NegInfinity
        /\ (~P_State_Schedule[timestep - 1] /\ RunLength(FALSE) = timestep) =>
               LET overlap == max_low[1] - timestep + 1 IN
               \A k \in 1 .. Len(constr_previous_state) :
                   constr_previous_state[k] =
                       IF k = overlap /\ overlap <= horizon THEN Fin(1)
                       ELSE NegInfinity

\* C17 witness: a full-output run shorter than min_full reaches back to the
\* start of the simulation
C17_Witness ==
    /\ Discrete
    /\ cl_pc = "updated"
    /\ timestep >= 1
    /\ P_State_Schedule[timestep - 1]
    /\ RunLength(TRUE) = timestep
    /\ min_full[1] > timestep
    /\ Len(constr_previous_state) >= 2

\* the steps of the window at which the bounds of constr_previous_state force
\* the state indicator to 1
ForcedByHistory ==
    { t \in op_time_vec : \A v \in Indicators : PreviousStateConstrs(v) => v[t] = 1 }

\* C18: in the discrete encoding, after a step at full output whose run began
\* after the start of the simulation, with r = min_full - (length of the run)
\* steps owed: r > op_horizon forces the indicator to 1 at every step of the
\* window, 1 <= r <= op_horizon at exactly the first r steps, r <= 0 nowhere.
C18_OwedRun ==
    (Discrete /\ Updated /\ timestep # 0) =>
        ((P_State_Schedule[timestep - 1] /\ RunLength(TRUE) < timestep) =>
            LET r == min_full[1] - RunLength(TRUE) IN
            /\ \E v \in Indicators : PreviousStateConstrs(v)
            /\ r > horizon => ForcedByHistory = op_time_vec
            /\ (1 <= r /\ r <= horizon) => ForcedByHistory = 0 .. (r - 1)
            /\ r <= 0 => ForcedByHistory = {})

\* C18 witness: more steps are owed than the window has
C18_Witness ==
    /\ Discrete
    /\ cl_pc = "updated"
    /\ timestep >= 2
    /\ P_State_Schedule[timestep - 1]
    /\ RunLength(TRUE) < timestep
    /\ min_full[1] - RunLength(TRUE) > horizon

\* the example: max_low = 2, min_full = 2, P_El_Nom = 10, P_El_Curt = 2,
\* op_horizon = 6, and exactly one step of reduced output before the window
ExampleCase ==
    /\ horizon = ExampleHorizon
    /\ Discrete
    /\ max_low = Some(2)
    /\ min_full = Some(2)
    /\ P_El_Nom = 10
    /\ P_El_Curt = 2
    /\ cl_pc = "updated"
    /\ timestep # 0
    /\ ~P_State_Schedule[timestep - 1]
    /\ RunLength(FALSE) = 1

\* every assignment of the state indicators the model admits starts full
\* output at step 0 or 1 of the window and keeps it for two steps at least
ExampleForced ==
    \A v \in Indicators :
        IntegerConstrs(v) =>
            \E k \in {0, 1} :
                /\ \A j \in 0 .. (k - 1) : v[j] = 0
                /\ v[k] = 1
                /\ v[k + 1] = 1

\* C19 as stated: in the example the bounds written by update_model force the
\* indicator to 1 at step 0 or 1 of the window and, with the min-run
\* constraints, full output for 2 consecutive steps at least, and the
\* rewritten history bound equals the forced-run length, 2.
C19_Original ==
    ExampleCase =>
        /\ ExampleForced
        /\ \E k \in 1 .. Len(constr_previous_state) :
               constr_previous_state[k] = Fin(min_full[1])

\* C19 amended: in the example update_model writes the bound 1 on the handle
\* over the first 2 indicators (at least one of them is 1), leaves the other
\* handle at -infinity and sets constr_previous_start to 0; with the min-run
\* constraints this forces full output to start at step 0 or 1 of the window
\* and to last 2 consecutive steps at least. No bound equals the run length 2.
C19_ExampleBounds ==
    ExampleCase =>
        /\ ExampleForced
        /\ constr_previous_state = << NegInfinity, Fin(1) >>
        /\ constr_previous_start = Some(Fin(0))
        /\ \E v \in Indicators : IntegerConstrs(v)

\* C19 witness: the example, the single step of reduced output following a
\* step of full output
C19_Witness ==
    /\ ExampleCase
    /\ timestep >= 2
    /\ P_State_Schedule[timestep - 2]

\* the number of steps among the width - o before the window at the level x
StepsAt(o, x) ==
    Cardinality({ t \in (timestep - (min_full[1] + max_low[1] - o)) .. (timestep - 1) :
                     P_El_Schedule[t] = x })

\* C20: the relaxed encoding has min(min_full + max_low - 1, op_horizon)
\* constr_previous handles; once width - o = min_full + max_low - o steps lie
\* before the window, update_model sets the bound of the handle of overlap o
\* to P_El_Nom * min_full + P_El_Curt * max_low minus the realized power of
\* those width - o steps.
C20_RelaxedBounds ==
    (Relaxed /\ cl_pc \notin {"off", "new", "constructed", "rejected"}) =>
        /\ Len(constr_previous) = Min(min_full[1] + max_low[1] - 1, horizon)
        /\ Updated =>
               \A o \in 1 .. Len(constr_previous) :
                   timestep >= min_full[1] + max_low[1] - o =>
                       constr_previous[o] =
                           Fin(P_El_Nom * min_full[1] + P_El_Curt * max_low[1]
                               - P_El_Nom * StepsAt(o, P_El_Nom)
                               - P_El_Curt * StepsAt(o, P_El_Curt))

\* C20 witness: update_model has run with width - 1 steps before the window,
\* some at nominal and some at curtailed power, and several handles
C20_Witness ==
    /\ Relaxed
    /\ cl_pc = "updated"
    /\ Len(constr_previous) >= 2
    /\ timestep >= min_full[1] + max_low[1] - 1
    /\ StepsAt(1, P_El_Nom) >= 1
    /\ StepsAt(1, P_El_Curt) >= 1

\* C21: in the relaxed encoding, under rolling-horizon re-optimization, every
\* window of min_full + max_low consecutive realized steps has a power sum of
\* at least P_El_Nom * min_full + P_El_Curt * max_low, also when it straddles
\* the boundary between optimization windows.
C21_SlidingWindow ==
    Relaxed =>
        LET width == min_full[1] + max_low[1] IN
        \A a \in Realized :
            (a + width - 1) \in Realized =>
                SumRange(P_El_Schedule, a, a + width) >=
                    P_El_Nom * min_full[1] + P_El_Curt * max_low[1]

\* C21 witness: a realized window longer than op_horizon, so that it straddles
\* optimization windows, that holds exactly the required power
C21_Witness ==
    /\ Relaxed
    /\ horizon < min_full[1] + max_low[1]
    /\ max_low[1] >= 2
    /\ \E a \in Realized :
           /\ a >= 1
           /\ (a + min_full[1] + max_low[1] - 1) \in Realized
           /\ SumRange(P_El_Schedule, a, a + min_full[1] + max_low[1]) =
                  P_El_Nom * min_full[1] + P_El_Curt * max_low[1]

\* a step of update_model, completed or ended by an exception
UpdateModelStep ==
    /\ cl_pc = "ready"
    /\ cl_pc' \in {"updated", "assertion_error", "index_error"}

\* the number of handles whose right-hand side a step changes
ChangedHandles ==
    Cardinality({ k \in 1 .. Len(constr_previous_state) :
                     constr_previous_state'[k] # constr_previous_state[k] })
    + Cardinality({ o \in 1 .. Len(constr_previous) :
                       constr_previous'[o] # constr_previous[o] })
    + (IF constr_previous_start' # constr_previous_start THEN 1 ELSE 0)

\* C22: update_model creates and deletes nothing: the handle lists
\* constr_previous_state and constr_previous keep their lengths,
\* constr_previous_start stays None or stays a handle, the variables, the mode
\* and the schedules are untouched; only right-hand sides of the handles
\* change, at most op_horizon + 1 of them in a call.
C22_UpdateFrame ==
    [][UpdateModelStep =>
          /\ Len(constr_previous_state') = Len(constr_previous_state)
          /\ Len(constr_previous') = Len(constr_previous)
          /\ (constr_previous_start' = None) <=> (constr_previous_start = None)
          /\ UNCHANGED << args, max_low, min_full, horizon, mode, timestep, populated,
                          P_El_vars, P_El_Schedule, P_State_Schedule >>
          /\ ChangedHandles <= horizon + 1]_vars

\* C22 witness: update_model has rewritten the bounds of a discrete model
\* with op_horizon constr_previous_state handles and a constr_previous_start
C22_Witness ==
    /\ Discrete
    /\ cl_pc = "updated"
    /\ timestep >= 1
    /\ Len(constr_previous_state) = horizon
    /\ horizon >= 2
    /\ constr_previous_start = Some(Fin(0))
    /\ \E k \in 1 .. Len(constr_previous_state) : constr_previous_state[k] = Fin(1)

\* a step of ThermalEntity.update_schedule
ThUpdateScheduleStep == th_pc = "solved" /\ th_pc' = "scheduled"

\* C23: ThermalEntity.update_schedule at timestep t writes exactly the entries
\* t .. t + op_horizon - 1 of P_Th_Schedule, with the values of P_Th_vars in
\* order, and leaves the other entries and P_Th_Ref_Schedule unchanged; both
\* schedules keep the length simu_horizon whatever is called.
C23_ScheduleWindow ==
    /\ [][ThUpdateScheduleStep =>
             /\ \A k \in SimuSteps :
                    IF timestep <= k /\ k < timestep + horizon
                    THEN P_Th_Schedule'[k] = P_Th_vars[k - timestep]
                    ELSE P_Th_Schedule'[k] = P_Th_Schedule[k]
             /\ P_Th_Ref_Schedule' = P_Th_Ref_Schedule]_vars
    /\ [](th_pc # "off" =>
             /\ DOMAIN P_Th_Schedule = 0 .. (simu_horizon - 1)
             /\ DOMAIN P_Th_Ref_Schedule = 0 .. (simu_horizon - 1))

\* C23 witness: update_schedule has written a window that starts after step 0
\* over an earlier one, and a saved reference schedule differs from it
C23_Witness ==
    /\ th_pc = "scheduled"
    /\ timestep >= 1
    /\ horizon >= 2
    /\ P_Th_Schedule[timestep - 1] # 0
    /\ \A t \in op_time_vec : P_Th_Schedule[timestep + t] = P_Th_vars[t]
    /\ P_Th_Ref_Schedule # ZeroSchedule
    /\ P_Th_Ref_Schedule # P_Th_Schedule

\* the grid of the relaxed state indicators: an indicator takes the values
\* 0, 1/StateUnit, .., 1, held as the numerators 0 .. StateUnit
StateUnit == P_El_Nom \div P_El_Curt
RelaxedIndicators == [op_time_vec -> 0 .. StateUnit]

\* the constraints of the integer branch with its bounds as update_model left
\* them, on indicators v / StateUnit in [0, 1] and the powers p
LinearConstrs(v, p) ==
    /\ \A t \in op_time_vec : v[t] * P_El_Nom <= StateUnit * p[t]
    /\ \A k \in 1 .. Len(constr_previous_state) :
           \/ constr_previous_state[k].inf = -1
           \/ SumRange(v, 0, Min(k, horizon)) >= StateUnit * constr_previous_state[k].val
    /\ \A t \in op_time_vec :
           SliceLen(horizon, t, t + max_low[1] + 1) = max_low[1] + 1 =>
               SumRange(v, t, t + max_low[1] + 1) >= StateUnit
    /\ constr_previous_start # None =>
           \/ constr_previous_start[1].inf = 1
           \/ v[0] * SliceLen(horizon, 1, min_full[1])
                 - SumRange(v, 1, Min(min_full[1], horizon))
               <= StateUnit * constr_previous_start[1].val
    /\ min_full[1] > 1 =>
           \A t \in 0 .. (horizon - 3) :
               (v[t + 1] - v[t]) * SliceLen(horizon, t + 2, t + min_full[1] + 1)
                   <= SumRange(v, t + 2, Min(t + min_full[1] + 1, horizon))

\* p is feasible for the discrete encoding with its indicators relaxed
DiscreteRelaxationFeasible(p) == \E v \in RelaxedIndicators : LinearConstrs(v, p)

\* p is feasible for the relaxed encoding with the bounds update_model writes
\* for the same timestep and realized schedule
RelaxedEncodingFeasible(p) ==
    /\ WidthConstrs(p)
    /\ \A o \in 1 .. MaxOverlapPower : GeqRHS(SumRange(p, 0, o), RelaxedBound(o))

\* C24 as stated: for the same max_low, min_full, op_horizon and realized
\* history, a power trajectory of the window is feasible for the relaxed
\* encoding exactly if it is feasible for the discrete encoding with its
\* state indicators relaxed to the interval [0, 1].
C24_EncodingsAgree ==
    (Discrete /\ cl_pc = "updated") =>
        \A p \in [op_time_vec -> Levels] :
            RelaxedEncodingFeasible(p) <=> DiscreteRelaxationFeasible(p)

\* C25 as stated: in the relaxed encoding update_model at timestep 0 writes
\* only unconstraining bounds: for every overlap o the bound on the sum of the
\* first o power variables is at most o * P_El_Curt, which the lower bounds of
\* the variables give already.
C25_UnconstrainingAtStart ==
    (Relaxed /\ timestep = 0 /\ Updated) =>
        \A o \in 1 .. Len(constr_previous) :
            \/ constr_previous[o].inf = -1
            \/ (constr_previous[o].inf = 0 /\ constr_previous[o].val <= o * P_El_Curt)

\* C26 as stated: the bounds update_model leaves are a function of the current
\* timestep and the realized schedule before it alone: at timestep 0 the
\* values of a fresh model, at a later timestep one bound over unconstraining
\* ones, whatever earlier update_model calls wrote.
C26_NoStaleBounds ==
    cl_pc = "updated" =>
        /\ timestep = 0 =>
               /\ \A k \in 1 .. Len(constr_previous_state) :
                      constr_previous_state[k] = NegInfinity
               /\ constr_previous_start \in {None, Some(PosInfinity)}
        /\ (timestep # 0 /\ Len(constr_previous_state) > 0) =>
               /\ constr_previous_state = UpdatedPreviousState
               /\ constr_previous_start = UpdatedPreviousStart
        /\ \A o \in 1 .. Len(constr_previous) : constr_previous[o] = RelaxedBound(o)

\* C27 as stated: in the discrete encoding, at every timestep >= 1 and for
\* every realized history for which update_model completes, the index k it
\* writes a bound at satisfies 0 <= k < len(constr_previous_state); the one
\* index written as -1 on purpose, for the last handle after a step at full
\* output, aside, and so the index max_low - low_ts is never negative.
C27_IndexInRange ==
    (Discrete /\ populated = 1 /\ cl_pc = "updated" /\ timestep >= 1) =>
        (WrittenIndex # None =>
            LET k == WrittenIndex[1] IN
            IF P_State_Schedule[timestep - 1]
            THEN k = -1 \/ (0 <= k /\ k < Len(constr_previous_state))
            ELSE /\ k = max_low[1] - RunLength(FALSE)
                 /\ 0 <= k
                 /\ k < Len(constr_previous_state))

\* C28 as stated: after any number of populate_model calls the load holds the
\* handles of the most recent one only: constr_previous_state is empty or has
\* min(max(max_low, min_full - 1), op_horizon) handles, constr_previous is
\* empty or has min(max_low + min_full - 1, op_horizon) handles, and at most
\* one of the two lists is non-empty.
C28_MostRecentPopulateOnly ==
    populated >= 1 =>
        IF Constrained
        THEN /\ Len(constr_previous_state) \in {0, MaxOverlapState}
             /\ Len(constr_previous) \in {0, MaxOverlapPower}
             /\ Len(constr_previous_state) = 0 \/ Len(constr_previous) = 0
        ELSE /\ Len(constr_previous_state) = 0
             /\ Len(constr_previous) = 0

=============================================================================
